---------------------------- MODULE Spec2Model ----------------------------
(***************************************************************************)
(* Zen Tab Sorter (src/background.js): effective-host resolution, URL      *)
(* deduplication, the (host, title) comparator, the window reconciliation  *)
(* sortTabsInWindow / sortUngroupedTabs and the new-tab placement          *)
(* autoSortNewTab, run against a model of the browser's tab service.       *)
(*                                                                         *)
(* A window is a sequence of tab ids (the index of a tab is its position   *)
(* minus one); every await of the code is one step of the model, and a     *)
(* service call either resolves or rejects.                                *)
(***************************************************************************)
EXTENDS Integers, Sequences, FiniteSets, TLC

\* Number of tabs of the window a behaviour starts from.
MaxTabs == 3

\* ------------------------------------------------------------------------
\* Sequence helpers (Array.prototype.filter / map / indexOf)
\* ------------------------------------------------------------------------
Range(s) == {s[i] : i \in 1..Len(s)}

RECURSIVE SelectIds(_, _)
\* s.filter(x => x \in keep), order kept
SelectIds(s, keep) ==
  IF s = <<>> THEN <<>>
  ELSE IF Head(s) \in keep THEN <<Head(s)>> \o SelectIds(Tail(s), keep)
       ELSE SelectIds(Tail(s), keep)

\* 1-based position of x in s (x occurs in s)
PosOf(s, x) == CHOOSE i \in 1..Len(s) : s[i] = x

RECURSIVE Flatten(_)
Flatten(ss) == IF ss = <<>> THEN <<>> ELSE Head(ss) \o Flatten(Tail(ss))

Min(S) == CHOOSE x \in S : \A y \in S : x <= y

\* ------------------------------------------------------------------------
\* Strings: String.prototype.toLowerCase and String.prototype.localeCompare
\* ------------------------------------------------------------------------
\* toLowerCase on the strings of the model
Lower(s) ==
  CASE s = "A" -> "a"
    [] s = "B" -> "b"
    [] s = "WWW" -> "www"
    [] s = "Not A Url" -> "not a url"
    [] OTHER -> s

\* The collation order of the strings of the model: the classes are in
\* primary (base letter) order; the strings of one class differ only by case
\* and are listed in the order the default (variant) collation gives them.
CollationClasses ==
  << <<"">>, <<"a", "A">>, <<"au">>, <<"b", "B">>, <<"bbc">>, <<"co">>,
     <<"com">>, <<"localhost">>, <<"mail">>, <<"not a url", "Not A Url">>,
     <<"uk">>, <<"www", "WWW">>, <<"1">>, <<"168">>, <<"192">> >>

Strings == UNION {Range(CollationClasses[i]) : i \in 1..Len(CollationClasses)}

PrimaryKey(s) == CHOOSE i \in 1..Len(CollationClasses) : s \in Range(CollationClasses[i])
TertiaryKey(s) == PosOf(CollationClasses[PrimaryKey(s)], s)

Sign(n) == IF n < 0 THEN -1 ELSE IF n > 0 THEN 1 ELSE 0

\* a.localeCompare(b, undefined, {sensitivity: "base"}): case and accents ignored
StrCompareBase(a, b) == Sign(PrimaryKey(a) - PrimaryKey(b))

\* a.localeCompare(b) with the default options (sensitivity "variant")
StrCompareVariant(a, b) ==
  IF PrimaryKey(a) # PrimaryKey(b) THEN Sign(PrimaryKey(a) - PrimaryKey(b))
  ELSE Sign(TertiaryKey(a) - TertiaryKey(b))


\* A host name or a fallback key is a sequence of labels (the string split at
\* its dots); comparing two of them label by label is localeCompare on the
\* joined strings, "." sorting before every letter and digit.
RECURSIVE SeqCompare(_, _)
\* lexicographic comparison of two sequences of collation keys
SeqCompare(a, b) ==
  IF a = <<>> /\ b = <<>> THEN 0
  ELSE IF a = <<>> THEN -1
  ELSE IF b = <<>> THEN 1
  ELSE IF Head(a) # Head(b) THEN Sign(Head(a) - Head(b))
  ELSE SeqCompare(Tail(a), Tail(b))

PrimaryKeys(h) == [i \in 1..Len(h) |-> PrimaryKey(h[i])]
TertiaryKeys(h) == [i \in 1..Len(h) |-> TertiaryKey(h[i])]

HostCompareBase(a, b) == SeqCompare(PrimaryKeys(a), PrimaryKeys(b))

HostCompareVariant(a, b) ==
  IF HostCompareBase(a, b) # 0 THEN HostCompareBase(a, b)
  ELSE SeqCompare(TertiaryKeys(a), TertiaryKeys(b))

\* ------------------------------------------------------------------------
\* URLs.  A raw URL string is a record of its parts: new URL(raw) parses it
\* iff it has a scheme; the empty string has every part empty.
\* ------------------------------------------------------------------------
Url(scheme, host, path, hash) ==
  [scheme |-> scheme, host |-> host, path |-> path, hash |-> hash]

EmptyUrl == Url("", <<>>, "", "")

\* new URL(raw): throws (FALSE) or parses; the parser lower-cases the host
Parsable(raw) == raw.scheme # ""
ParsedHostname(raw) == [i \in 1..Len(raw.host) |-> Lower(raw.host[i])]

DigitLabels == {"1", "168", "192"}

LastN(s, n) == SubSeq(s, Len(s) - n + 1, Len(s))

multiPartSuffixes ==
  { <<"co", "uk">>, <<"org", "uk">>, <<"gov", "uk">>, <<"ac", "uk">>,
    <<"com", "au">>, <<"net", "au">>, <<"org", "au">>, <<"co", "jp">> }

\* getEffectiveHostname without the multi-part suffix table: always the last
\* two labels
getEffectiveHostnameLastTwo(hostname) ==
  LET lower == [i \in 1..Len(hostname) |-> Lower(hostname[i])]
      isIp == Len(lower) = 4 /\ \A i \in 1..4 : lower[i] \in DigitLabels
      host == IF Len(lower) >= 2 /\ lower[1] = "www" THEN Tail(lower) ELSE lower
  IN  IF lower = <<>> THEN <<>>
      ELSE IF isIp \/ lower = <<"localhost">> THEN lower
      ELSE IF Len(host) >= 2 THEN LastN(host, 2)
      ELSE host

\* getEffectiveHostname(hostname): hostname and result as label sequences
getEffectiveHostname(hostname) ==
  LET lower == [i \in 1..Len(hostname) |-> Lower(hostname[i])]
      isIp == Len(lower) = 4 /\ \A i \in 1..4 : lower[i] \in DigitLabels
      host == IF Len(lower) >= 2 /\ lower[1] = "www" THEN Tail(lower) ELSE lower
  IN  IF lower = <<>> THEN <<>>
      ELSE IF isIp \/ lower = <<"localhost">> THEN lower
      ELSE IF Len(host) >= 3 /\ LastN(host, 2) \in multiPartSuffixes
           THEN LastN(host, 3)
      ELSE IF Len(host) >= 2 THEN LastN(host, 2)
      ELSE host

\* getHost(tab), from the tab's url
getHost(url) ==
  IF Parsable(url) THEN getEffectiveHostname(ParsedHostname(url))
  ELSE IF url = EmptyUrl THEN <<>> ELSE <<Lower(url.path)>>

\* normalizeUrlForDeduplication(rawUrl): the href without its fragment, or the
\* raw string when it does not parse
normalizeUrlForDeduplication(rawUrl) ==
  IF Parsable(rawUrl)
  THEN Url(rawUrl.scheme, ParsedHostname(rawUrl), rawUrl.path, "")
  ELSE rawUrl

\* ------------------------------------------------------------------------
\* State
\* ------------------------------------------------------------------------
VARIABLES
  attr,               \* tab id -> [url, title, pinned, active]: what the browser holds
  win,                \* the window: tab ids in index order
  grp,                \* tab id -> its groupId (TAB_GROUP_ID_NONE when in no group)
  groups,             \* group id -> [title, color, collapsed] of the window's groups
  supportsTabGroups,  \* typeof browser.tabGroups !== "undefined"
  proc,               \* per invocation of sortTabsInWindow: its locals and position
  cmds,               \* every service call issued so far, in issue order
  auto,               \* the invocation of autoSortNewTab: its locals and position
  upd,                \* the invocation of updateGroupState: its locals and position
  groupState          \* the global groupState, for the one window

vars == <<attr, win, grp, groups, supportsTabGroups, proc, cmds, auto, upd, groupState>>

TabIds == 1..MaxTabs
TAB_GROUP_ID_NONE == -1
GroupIds == {1, 2}

\* ------------------------------------------------------------------------
\* The tab service (browser.tabs, browser.tabGroups) on the window
\* ------------------------------------------------------------------------
IndexOf(w, id) == PosOf(w, id) - 1

\* the TabRecord a query returns for tab id
TabRecord(w, g, id) ==
  [id |-> id, index |-> IndexOf(w, id), url |-> attr[id].url,
   title |-> attr[id].title, pinned |-> attr[id].pinned,
   active |-> attr[id].active, groupId |-> g[id]]

\* browser.tabs.query({windowId}): the window's tabs in index order
QueryTabs(w, g) == [i \in 1..Len(w) |-> TabRecord(w, g, w[i])]

\* browser.tabs.move(id, {index}) resolved: the tab stands at index afterwards
MoveTo(w, id, index) ==
  LET rest == SelectIds(w, Range(w) \ {id})
      k == IF index < 0 \/ index > Len(rest) THEN Len(rest) ELSE index
  IN  SubSeq(rest, 1, k) \o <<id>> \o SubSeq(rest, k + 1, Len(rest))

\* browser.tabs.group({tabIds}) resolved: the tabs stand together, in their
\* window order, where the first of them stood
Gather(w, ids) ==
  IF ids = {} THEN w
  ELSE LET first == Min({PosOf(w, id) : id \in ids})
           before == SelectIds(SubSeq(w, 1, first - 1), Range(w) \ ids)
           after == SelectIds(SubSeq(w, first, Len(w)), Range(w) \ ids)
       IN  before \o SelectIds(w, ids) \o after

\* browser.tabs.remove(ids) resolved
RemoveTabs(w, ids) == SelectIds(w, Range(w) \ ids)

\* ------------------------------------------------------------------------
\* removeDuplicateTabs: the tabs to close, from the queried tabs
\* ------------------------------------------------------------------------
\* keep without the priority of the active tab: always the lowest index
keepLowestIndex(tabs, S) ==
  CHOOSE i \in S : \A j \in S :
    tabs[i].index < tabs[j].index \/ (tabs[i].index = tabs[j].index /\ i <= j)

\* keep: the active tab of the unpinned duplicates, else the lowest index.
\* tabs: the query result; S: the positions in it of the unpinned duplicates.
keep(tabs, S) ==
  IF \E i \in S : tabs[i].active
  THEN Min({i \in S : tabs[i].active})
  ELSE CHOOSE i \in S : \A j \in S :
         tabs[i].index < tabs[j].index \/ (tabs[i].index = tabs[j].index /\ i <= j)

\* closeOfSameUrl without the pinned branch: the first duplicate is kept and
\* every other one closed, pinned or not
closeOfSameUrlAnyPinned(tabs, S) ==
  IF Cardinality(S) <= 1 THEN {}
  ELSE {tabs[i].id : i \in S \ {Min(S)}}

\* closeOfSameUrl without a survivor: every unpinned duplicate is closed
closeOfSameUrlAll(tabs, S) ==
  IF Cardinality(S) <= 1 THEN {}
  ELSE {tabs[i].id : i \in {j \in S : ~tabs[j].pinned}}

\* the ids pushed to toClose for one entry of urlToTabs (positions S of tabs)
closeOfSameUrl(tabs, S) ==
  LET pinnedTabs == {i \in S : tabs[i].pinned}
      unpinnedTabs == {i \in S : ~tabs[i].pinned}
  IN  IF Cardinality(S) <= 1 THEN {}
      ELSE IF pinnedTabs # {} THEN {tabs[i].id : i \in unpinnedTabs}
      ELSE {tabs[i].id : i \in unpinnedTabs \ {keep(tabs, unpinnedTabs)}}

\* the tabs removeDuplicateTabs puts in urlToTabs: those with a non-empty url
dedupConsidered(tabs) == {i \in 1..Len(tabs) : tabs[i].url # EmptyUrl}

toClose(tabs) ==
  LET considered == dedupConsidered(tabs)
      key(i) == normalizeUrlForDeduplication(tabs[i].url)
  IN  UNION {closeOfSameUrl(tabs, {j \in considered : key(j) = key(i)}) :
               i \in considered}

\* ------------------------------------------------------------------------
\* Comparators and Array.prototype.sort (stable)
\* ------------------------------------------------------------------------
\* cmp[j, i] is the comparator's result on the elements at positions j and i
StableSort(s, cmp) ==
  LET before(j, i) == cmp[j, i] < 0 \/ (cmp[j, i] = 0 /\ j < i)
      rank(i) == 1 + Cardinality({j \in 1..Len(s) : before(j, i)})
  IN  [k \in 1..Len(s) |-> s[CHOOSE i \in 1..Len(s) : rank(i) = k]]

\* tabSorter comparing the titles only, the hosts left out
tabSorterTitleOnly(a, b) == StrCompareVariant(a.title, b.title)

\* tabSorter of sortTabsInWindow: the options object is passed as the locales
\* argument of localeCompare, so the default (variant) sensitivity applies
tabSorter(a, b) ==
  LET hostCompare == HostCompareVariant(getHost(a.url), getHost(b.url))
  IN  IF hostCompare # 0 THEN hostCompare ELSE StrCompareVariant(a.title, b.title)

\* the comparator of the groups, by title
groupSorter(a, b) == StrCompareVariant(a.group.title, b.group.title)

\* tabCompare of sortUngroupedTabs: sensitivity "base"
tabCompare(a, b) ==
  LET hostCompare == HostCompareBase(getHost(a.url), getHost(b.url))
  IN  IF hostCompare # 0 THEN hostCompare ELSE StrCompareBase(a.title, b.title)

Ids(tabs) == [i \in 1..Len(tabs) |-> tabs[i].id]

RECURSIVE FilterTabs(_, _)
\* tabs.filter(t => t.id \in keepIds)
FilterTabs(tabs, keepIds) ==
  IF tabs = <<>> THEN <<>>
  ELSE IF Head(tabs).id \in keepIds THEN <<Head(tabs)>> \o FilterTabs(Tail(tabs), keepIds)
       ELSE FilterTabs(Tail(tabs), keepIds)

\* ------------------------------------------------------------------------
\* sortTabsInWindow: data collection and the plan (background.js 209-256)
\* ------------------------------------------------------------------------
\* Number of reconciliations one invocation slot runs, one after the other.
MaxRuns == 2

pinnedOf(allTabs) == {i \in 1..Len(allTabs) : allTabs[i].pinned}

\* browser.tabGroups.query({windowId}): the groups, in ascending id order
RECURSIVE IdSeq(_)
IdSeq(S) == IF S = {} THEN <<>> ELSE <<Min(S)>> \o IdSeq(S \ {Min(S)})

QueryGroups(gs) ==
  LET ids == IdSeq(DOMAIN gs)
  IN  [i \in 1..Len(ids) |->
         [id |-> ids[i], title |-> gs[ids[i]].title, color |-> gs[ids[i]].color,
          collapsed |-> gs[ids[i]].collapsed]]

\* is the tab put in the bucket of one of the queried groups (line 229)
inGroupData(tab, queried) ==
  tab.groupId # TAB_GROUP_ID_NONE /\ \E i \in 1..Len(queried) : queried[i].id = tab.groupId

\* groupData after the distribution of the unpinned tabs, in insertion order
groupDataOf(allTabs, queried) ==
  [i \in 1..Len(queried) |->
     [group |-> queried[i],
      tabs |-> FilterTabs(allTabs,
                 {t.id : t \in {u \in Range(allTabs) :
                                  ~u.pinned /\ u.groupId = queried[i].id}})]]

\* ungroupedOf without the pinned test of line 228
ungroupedOfWithPinned(allTabs, queried) ==
  FilterTabs(allTabs,
    {t.id : t \in {u \in Range(allTabs) : ~inGroupData(u, queried)}})

ungroupedOf(allTabs, queried) ==
  FilterTabs(allTabs,
    {t.id : t \in {u \in Range(allTabs) : ~u.pinned /\ ~inGroupData(u, queried)}})

\* sortedGroupData: each bucket sorted with tabSorter, the groups by title
sortedGroupDataOf(allTabs, queried) ==
  LET gd == groupDataOf(allTabs, queried)
      sortedIn == [i \in 1..Len(gd) |->
                     [group |-> gd[i].group, tabs |-> StableSort(gd[i].tabs,
                                  [j, k \in 1..Len(gd[i].tabs) |-> tabSorter(gd[i].tabs[j], gd[i].tabs[k])])]]
  IN  StableSort(sortedIn, [j, k \in 1..Len(sortedIn) |-> groupSorter(sortedIn[j], sortedIn[k])])

\* sortedUngroupedOf handing the ungrouped tabs back in reverse snapshot order
sortedUngroupedOfReversed(allTabs, queried) ==
  LET u == ungroupedOf(allTabs, queried)
  IN  [i \in 1..Len(u) |-> u[Len(u) + 1 - i]]

sortedUngroupedOf(allTabs, queried) ==
  LET u == ungroupedOf(allTabs, queried)
  IN  StableSort(u, [j, k \in 1..Len(u) |-> tabSorter(u[j], u[k])])

\* sortUngroupedTabs (312-332): the sorted copy and the already-sorted test
sortedUnpinnedOf(unpinnedTabs) ==
  StableSort(unpinnedTabs,
             [j, k \in 1..Len(unpinnedTabs) |-> tabCompare(unpinnedTabs[j], unpinnedTabs[k])])

alreadySorted(unpinnedTabs) ==
  LET currentOrderIds == Ids(unpinnedTabs)
      sortedOrderIds == Ids(sortedUnpinnedOf(unpinnedTabs))
  IN  \A i \in 1..Len(currentOrderIds) : currentOrderIds[i] = sortedOrderIds[i]

unpinnedOf(allTabs) ==
  FilterTabs(allTabs, {t.id : t \in {u \in Range(allTabs) : ~u.pinned}})

\* ------------------------------------------------------------------------
\* sortTabsInWindow as a process: one step per awaited service call
\* ------------------------------------------------------------------------
IdleProc ==
  [pc |-> "idle", run |-> 0, toClose |-> {}, allTabs |-> <<>>,
   sortedGroupData |-> <<>>, ungroupedTabs |-> <<>>, sortedUnpinned |-> <<>>,
   gi |-> 0, ti |-> 0, currentIndex |-> 0, targetIndex |-> 0, newGroupId |-> 0,
   results |-> <<>>]

Call(p, op, tabIds, index, groupId, ok) ==
  [p |-> p, run |-> proc[p].run, op |-> op, tabIds |-> tabIds, index |-> index,
   groupId |-> groupId, ok |-> ok]

\* return {status}: the invocation is over
Return(r, status) == [r EXCEPT !.pc = "idle", !.results = Append(@, status)]

\* the loop over ungroupedTabs (294-301)
EnterUngrouped(r) ==
  IF r.ungroupedTabs # <<>> THEN [r EXCEPT !.pc = "umove", !.ti = 1]
  ELSE Return(r, "sorted")

\* the loop over sortedGroupData from entry g on: empty groups are skipped (265)
EnterGroup(r, g) ==
  LET nonEmpty == {k \in g..Len(r.sortedGroupData) : r.sortedGroupData[k].tabs # <<>>}
  IN  IF nonEmpty # {} THEN [r EXCEPT !.pc = "gmove", !.gi = Min(nonEmpty), !.ti = 1]
      ELSE EnterUngrouped(r)

\* tabIds walked from the last tab of the group to the first
tabIdsOfReversed(r) ==
  LET ids == Ids(r.sortedGroupData[r.gi].tabs)
  IN  [k \in 1..Len(ids) |-> ids[Len(ids) + 1 - k]]

tabIdsOf(r) == Ids(r.sortedGroupData[r.gi].tabs)

\* what no step of sortTabsInWindow changes
Static == UNCHANGED <<attr, supportsTabGroups, auto, upd, groupState>>

Step(p, r, call) ==
  /\ proc' = [proc EXCEPT ![p] = r]
  /\ cmds' = Append(cmds, call)

\* the command listener calls sortTabsInWindow(w.id) (372-376)
Invoke(p) ==
  /\ proc[p].pc = "idle"
  /\ proc[p].run < MaxRuns
  /\ proc' = [proc EXCEPT ![p] = [@ EXCEPT !.pc = "dedupQuery", !.run = @ + 1]]
  /\ UNCHANGED <<win, grp, groups, cmds>>
  /\ Static

\* removeDuplicateTabs: tabs.query resolves (89-125)
DedupQuery(p) ==
  /\ proc[p].pc = "dedupQuery"
  /\ LET tc == toClose(QueryTabs(win, grp))
     IN  Step(p, [proc[p] EXCEPT !.toClose = tc,
                                 !.pc = IF tc # {} THEN "remove" ELSE "query"],
              Call(p, "dupQuery", <<>>, 0, TAB_GROUP_ID_NONE, TRUE))
  /\ UNCHANGED <<win, grp, groups>>
  /\ Static

\* removeDuplicateTabs: tabs.query rejects; the catch at 130 swallows it
DedupQueryReject(p) ==
  /\ proc[p].pc = "dedupQuery"
  /\ Step(p, [proc[p] EXCEPT !.toClose = {}, !.pc = "query"],
          Call(p, "dupQuery", <<>>, 0, TAB_GROUP_ID_NONE, FALSE))
  /\ UNCHANGED <<win, grp, groups>>
  /\ Static

\* removeDuplicateTabs: tabs.remove(toClose) resolves (127)
Remove(p) ==
  /\ proc[p].pc = "remove"
  /\ proc[p].toClose \subseteq Range(win)
  /\ win' = RemoveTabs(win, proc[p].toClose)
  /\ Step(p, [proc[p] EXCEPT !.pc = "query"],
          Call(p, "remove", IdSeq(proc[p].toClose), 0, TAB_GROUP_ID_NONE, TRUE))
  /\ UNCHANGED <<grp, groups>>
  /\ Static

\* tabs.remove rejects; the catch at 128 swallows it
RemoveReject(p) ==
  /\ proc[p].pc = "remove"
  /\ Step(p, [proc[p] EXCEPT !.pc = "query"],
          Call(p, "remove", IdSeq(proc[p].toClose), 0, TAB_GROUP_ID_NONE, FALSE))
  /\ UNCHANGED <<win, grp, groups>>
  /\ Static

\* sortTabsInWindow: tabs.query resolves (209-217); without tab groups the
\* body of sortUngroupedTabs runs up to its first await (312-334)
Query(p) ==
  /\ proc[p].pc = "query"
  /\ LET allTabs == QueryTabs(win, grp)
         unpinned == unpinnedOf(allTabs)
         r == [proc[p] EXCEPT !.allTabs = allTabs]
     IN  Step(p,
              IF supportsTabGroups THEN [r EXCEPT !.pc = "groupQuery"]
              ELSE IF alreadySorted(unpinned) THEN Return(r, "already_sorted")
              ELSE [r EXCEPT !.pc = "smove", !.ti = 1,
                             !.sortedUnpinned = sortedUnpinnedOf(unpinned),
                             !.targetIndex = Cardinality(pinnedOf(allTabs))],
              Call(p, "query", <<>>, 0, TAB_GROUP_ID_NONE, TRUE))
  /\ UNCHANGED <<win, grp, groups>>
  /\ Static

\* tabs.query rejects: the catch at 302 returns {status: "error"}
QueryReject(p) ==
  /\ proc[p].pc = "query"
  /\ Step(p, Return(proc[p], "error"),
          Call(p, "query", <<>>, 0, TAB_GROUP_ID_NONE, FALSE))
  /\ UNCHANGED <<win, grp, groups>>
  /\ Static

\* tabGroups.query resolves: data collection, the plan, the first loop entry (221-264)
GroupQuery(p) ==
  /\ proc[p].pc = "groupQuery"
  /\ LET queried == QueryGroups(groups)
         allTabs == proc[p].allTabs
         r == [proc[p] EXCEPT
                 !.sortedGroupData = sortedGroupDataOf(allTabs, queried),
                 !.ungroupedTabs = sortedUngroupedOf(allTabs, queried),
                 !.currentIndex = Cardinality(pinnedOf(allTabs))]
     IN  Step(p, EnterGroup(r, 1),
              Call(p, "groupQuery", <<>>, 0, TAB_GROUP_ID_NONE, TRUE))
  /\ UNCHANGED <<win, grp, groups>>
  /\ Static

\* tabGroups.query rejects: nothing catches it before 302
GroupQueryReject(p) ==
  /\ proc[p].pc = "groupQuery"
  /\ Step(p, Return(proc[p], "error"),
          Call(p, "groupQuery", <<>>, 0, TAB_GROUP_ID_NONE, FALSE))
  /\ UNCHANGED <<win, grp, groups>>
  /\ Static

\* the regrouping started after the first move of the group already
AfterGroupMoveRegroupsEarly(r) == [r EXCEPT !.pc = "regroup"]

\* after the move of tabIds[ti]: the next tab of the group, or the regrouping
AfterGroupMove(r) ==
  IF r.ti < Len(tabIdsOf(r)) THEN [r EXCEPT !.ti = @ + 1]
  ELSE [r EXCEPT !.pc = "regroup"]

\* tabs.move(tabId, {index: currentIndex}) of a group member resolves (271-275)
MoveGrouped(p) ==
  /\ proc[p].pc = "gmove"
  /\ LET r == proc[p]
         tabId == tabIdsOf(r)[r.ti]
     IN  /\ tabId \in Range(win)
         /\ win' = MoveTo(win, tabId, r.currentIndex)
         /\ grp' = [grp EXCEPT ![tabId] = TAB_GROUP_ID_NONE]
         /\ Step(p, AfterGroupMove([r EXCEPT !.currentIndex = @ + 1]),
                 Call(p, "move", <<tabId>>, r.currentIndex, TAB_GROUP_ID_NONE, TRUE))
  /\ UNCHANGED groups
  /\ Static

\* the rejected move escaping to the outer catch of 302
MoveGroupedRejectAborts(p) ==
  /\ proc[p].pc = "gmove"
  /\ LET r == proc[p]
         tabId == tabIdsOf(r)[r.ti]
     IN  Step(p, Return(r, "error"),
              Call(p, "move", <<tabId>>, r.currentIndex, TAB_GROUP_ID_NONE, FALSE))
  /\ UNCHANGED <<win, grp, groups>>
  /\ Static

\* the move rejects: currentIndex is not advanced (275)
MoveGroupedReject(p) ==
  /\ proc[p].pc = "gmove"
  /\ LET r == proc[p]
         tabId == tabIdsOf(r)[r.ti]
     IN  Step(p, AfterGroupMove(r),
              Call(p, "move", <<tabId>>, r.currentIndex, TAB_GROUP_ID_NONE, FALSE))
  /\ UNCHANGED <<win, grp, groups>>
  /\ Static

membersOf(g, gid) == {id \in Range(win) : g[id] = gid}

\* the regrouping naming the first tab of the group only
RegroupFirstOnly(p) ==
  /\ proc[p].pc = "regroup"
  /\ LET r == proc[p]
         tabIds == <<tabIdsOf(r)[1]>>
         gid == r.sortedGroupData[r.gi].group.id
         g2 == [id \in DOMAIN grp |-> IF id \in Range(tabIds) THEN gid ELSE grp[id]]
     IN  /\ Range(tabIds) \subseteq Range(win)
         /\ gid \in DOMAIN groups
         /\ grp' = g2
         /\ win' = Gather(win, membersOf(g2, gid))
         /\ Step(p, EnterGroup(r, r.gi + 1), Call(p, "group", tabIds, 0, gid, TRUE))
  /\ UNCHANGED groups
  /\ Static

\* tabs.group({tabIds, groupId: data.group.id}) resolves (280-283)
Regroup(p) ==
  /\ proc[p].pc = "regroup"
  /\ LET r == proc[p]
         tabIds == tabIdsOf(r)
         gid == r.sortedGroupData[r.gi].group.id
         g2 == [id \in DOMAIN grp |-> IF id \in Range(tabIds) THEN gid ELSE grp[id]]
     IN  /\ Range(tabIds) \subseteq Range(win)
         /\ gid \in DOMAIN groups
         /\ grp' = g2
         /\ win' = Gather(win, membersOf(g2, gid))
         /\ Step(p, EnterGroup(r, r.gi + 1), Call(p, "group", tabIds, 0, gid, TRUE))
  /\ UNCHANGED groups
  /\ Static

\* the regrouping rejects: the fallback of 286-289 starts
RegroupReject(p) ==
  /\ proc[p].pc = "regroup"
  /\ LET r == proc[p]
     IN  Step(p, [r EXCEPT !.pc = "newGroup"],
              Call(p, "group", tabIdsOf(r), 0, r.sortedGroupData[r.gi].group.id, FALSE))
  /\ UNCHANGED <<win, grp, groups>>
  /\ Static

\* the id the browser gives a group it creates
freshGroupId == 1 + CHOOSE m \in (DOMAIN groups) \cup {0} :
                      \A k \in (DOMAIN groups) \cup {0} : k <= m

\* tabs.group({tabIds}) resolves with the id of a new group (287): the
\* browser gives it no title, the default color and shows it expanded
NewGroup(p) ==
  /\ proc[p].pc = "newGroup"
  /\ LET r == proc[p]
         tabIds == tabIdsOf(r)
         gid == freshGroupId
         g2 == [id \in DOMAIN grp |-> IF id \in Range(tabIds) THEN gid ELSE grp[id]]
     IN  /\ Range(tabIds) \subseteq Range(win)
         /\ grp' = g2
         /\ win' = Gather(win, Range(tabIds))
         /\ groups' = [k \in (DOMAIN groups) \cup {gid} |->
                         IF k = gid THEN [title |-> "", color |-> "grey", collapsed |-> FALSE]
                         ELSE groups[k]]
         /\ Step(p, [r EXCEPT !.pc = "update", !.newGroupId = gid],
                 Call(p, "group", tabIds, 0, TAB_GROUP_ID_NONE, TRUE))
  /\ Static

\* the rejected creation escaping to the outer catch of 302
NewGroupRejectAborts(p) ==
  /\ proc[p].pc = "newGroup"
  /\ LET r == proc[p]
     IN  Step(p, Return(r, "error"),
              Call(p, "group", tabIdsOf(r), 0, TAB_GROUP_ID_NONE, FALSE))
  /\ UNCHANGED <<win, grp, groups>>
  /\ Static

\* creating the group rejects too: the catch at 289 leaves the tabs as they are
NewGroupReject(p) ==
  /\ proc[p].pc = "newGroup"
  /\ LET r == proc[p]
     IN  Step(p, EnterGroup(r, r.gi + 1),
              Call(p, "group", tabIdsOf(r), 0, TAB_GROUP_ID_NONE, FALSE))
  /\ UNCHANGED <<win, grp, groups>>
  /\ Static

\* tabGroups.update(newGroupId, {title: data.group.title}) resolves (288)
UpdateTitle(p) ==
  /\ proc[p].pc = "update"
  /\ LET r == proc[p]
     IN  /\ r.newGroupId \in DOMAIN groups
         /\ groups' = [groups EXCEPT ![r.newGroupId].title =
                                        r.sortedGroupData[r.gi].group.title]
         /\ Step(p, EnterGroup(r, r.gi + 1),
                 Call(p, "update", <<>>, 0, r.newGroupId, TRUE))
  /\ UNCHANGED <<win, grp>>
  /\ Static

\* the update rejects (289)
UpdateTitleReject(p) ==
  /\ proc[p].pc = "update"
  /\ LET r == proc[p]
     IN  Step(p, EnterGroup(r, r.gi + 1),
              Call(p, "update", <<>>, 0, r.newGroupId, FALSE))
  /\ UNCHANGED <<win, grp, groups>>
  /\ Static

\* after the move of ungroupedTabs[ti]: the next tab, or return "sorted" (301)
AfterUngroupedMove(r) ==
  IF r.ti < Len(r.ungroupedTabs) THEN [r EXCEPT !.ti = @ + 1]
  ELSE Return(r, "sorted")

\* tabs.move(tab.id, {index: currentIndex}) of an ungrouped tab resolves (294-298)
MoveUngrouped(p) ==
  /\ proc[p].pc = "umove"
  /\ LET r == proc[p]
         tabId == r.ungroupedTabs[r.ti].id
     IN  /\ tabId \in Range(win)
         /\ win' = MoveTo(win, tabId, r.currentIndex)
         /\ grp' = [grp EXCEPT ![tabId] = TAB_GROUP_ID_NONE]
         /\ Step(p, AfterUngroupedMove([r EXCEPT !.currentIndex = @ + 1]),
                 Call(p, "move", <<tabId>>, r.currentIndex, TAB_GROUP_ID_NONE, TRUE))
  /\ UNCHANGED groups
  /\ Static

MoveUngroupedReject(p) ==
  /\ proc[p].pc = "umove"
  /\ LET r == proc[p]
         tabId == r.ungroupedTabs[r.ti].id
     IN  Step(p, AfterUngroupedMove(r),
              Call(p, "move", <<tabId>>, r.currentIndex, TAB_GROUP_ID_NONE, FALSE))
  /\ UNCHANGED <<win, grp, groups>>
  /\ Static

\* sortUngroupedTabs: after the move of sortedUnpinned[ti] (335-341)
AfterSortMove(r) ==
  IF r.ti < Len(r.sortedUnpinned) THEN [r EXCEPT !.ti = @ + 1]
  ELSE Return(r, "sorted")

\* sortUngroupedTabs: tabs.move(tab.id, {index: targetIndex}) resolves (337-338)
SortMove(p) ==
  /\ proc[p].pc = "smove"
  /\ LET r == proc[p]
         tabId == r.sortedUnpinned[r.ti].id
     IN  /\ tabId \in Range(win)
         /\ win' = MoveTo(win, tabId, r.targetIndex)
         /\ grp' = [grp EXCEPT ![tabId] = TAB_GROUP_ID_NONE]
         /\ Step(p, AfterSortMove([r EXCEPT !.targetIndex = @ + 1]),
                 Call(p, "move", <<tabId>>, r.targetIndex, TAB_GROUP_ID_NONE, TRUE))
  /\ UNCHANGED groups
  /\ Static

SortMoveReject(p) ==
  /\ proc[p].pc = "smove"
  /\ LET r == proc[p]
         tabId == r.sortedUnpinned[r.ti].id
     IN  Step(p, AfterSortMove(r),
              Call(p, "move", <<tabId>>, r.targetIndex, TAB_GROUP_ID_NONE, FALSE))
  /\ UNCHANGED <<win, grp, groups>>
  /\ Static

\* ------------------------------------------------------------------------
\* autoSortNewTab (167-196), called by the tabs.onCreated listener (367-369)
\* ------------------------------------------------------------------------
NoTab == [id |-> 0]

IdleAuto ==
  [pc |-> "idle", tab |-> NoTab, newTabHost |-> <<>>, targetIndex |-> 0,
   result |-> "none"]

AutoCall(op, tabIds, index, ok) ==
  [p |-> 0, run |-> 0, op |-> op, tabIds |-> tabIds, index |-> index,
   groupId |-> TAB_GROUP_ID_NONE, ok |-> ok]

AutoStatic == UNCHANGED <<attr, supportsTabGroups, proc, groups, upd, groupState>>

\* the tabs the query of 176-182 returns
autoQueried(w, g) ==
  FilterTabs(QueryTabs(w, g),
    {id \in Range(w) : /\ ~attr[id].pinned
                       /\ (supportsTabGroups => g[id] = TAB_GROUP_ID_NONE)})

\* sameDomainTabs without the t.id !== tab.id test: the new tab counts itself
sameDomainTabsWithSelf(tabs, tab) ==
  {i \in 1..Len(tabs) : getHost(tabs[i].url) = getHost(tab.url)}

\* sameDomainTabs (184-186)
sameDomainTabs(tabs, tab) ==
  {i \in 1..Len(tabs) : tabs[i].id # tab.id /\ getHost(tabs[i].url) = getHost(tab.url)}

\* targetIndex taken as the highest index among the same-domain tabs
autoTargetIndexMax(tabs, same) ==
  CHOOSE m \in {tabs[i].index : i \in same} : \A i \in same : tabs[i].index <= m

\* targetIndex (190): the lowest index among the same-domain tabs
autoTargetIndex(tabs, same) == Min({tabs[i].index : i \in same})

\* does autoSortNewTab return at 169
autoIgnores(tab) == tab.url = EmptyUrl \/ tab.pinned

\* tabs.onCreated fires with the new tab n of the window; the guard of 169
AutoCreated(n) ==
  /\ auto.pc = "idle"
  /\ n \in Range(win)
  /\ LET tab == TabRecord(win, grp, n)
     IN  auto' = IF autoIgnores(tab)
                 THEN [auto EXCEPT !.pc = "done", !.tab = tab, !.result = "ignored"]
                 ELSE [auto EXCEPT !.pc = "query", !.tab = tab,
                                   !.newTabHost = getHost(tab.url)]
  /\ UNCHANGED <<win, grp, cmds>>
  /\ AutoStatic

\* tabs.query resolves (176-190)
AutoQuery ==
  /\ auto.pc = "query"
  /\ LET tabs == autoQueried(win, grp)
         same == sameDomainTabs(tabs, auto.tab)
     IN  auto' = IF same # {}
                 THEN [auto EXCEPT !.pc = "move",
                                   !.targetIndex = autoTargetIndex(tabs, same)]
                 ELSE [auto EXCEPT !.pc = "done", !.result = "no_move"]
  /\ cmds' = Append(cmds, AutoCall("query", <<>>, 0, TRUE))
  /\ UNCHANGED <<win, grp>>
  /\ AutoStatic

\* tabs.query rejects: the catch at 195
AutoQueryReject ==
  /\ auto.pc = "query"
  /\ auto' = [auto EXCEPT !.pc = "done", !.result = "query_failed"]
  /\ cmds' = Append(cmds, AutoCall("query", <<>>, 0, FALSE))
  /\ UNCHANGED <<win, grp>>
  /\ AutoStatic

\* tabs.move(tab.id, {index: targetIndex}) resolves (192)
AutoMove ==
  /\ auto.pc = "move"
  /\ auto.tab.id \in Range(win)
  /\ win' = MoveTo(win, auto.tab.id, auto.targetIndex)
  /\ grp' = [grp EXCEPT ![auto.tab.id] = TAB_GROUP_ID_NONE]
  /\ auto' = [auto EXCEPT !.pc = "done", !.result = "moved"]
  /\ cmds' = Append(cmds, AutoCall("move", <<auto.tab.id>>, auto.targetIndex, TRUE))
  /\ AutoStatic

\* the move rejects: the catch at 193
AutoMoveReject ==
  /\ auto.pc = "move"
  /\ auto' = [auto EXCEPT !.pc = "done", !.result = "move_failed"]
  /\ cmds' = Append(cmds, AutoCall("move", <<auto.tab.id>>, auto.targetIndex, FALSE))
  /\ UNCHANGED <<win, grp>>
  /\ AutoStatic

\* ------------------------------------------------------------------------
\* updateGroupState (139-160), called by the listeners of 346-364
\* ------------------------------------------------------------------------
\* the events whose listeners call updateGroupState
GroupStateEvents ==
  {"tabGroups.onCreated", "tabGroups.onUpdated", "tabGroups.onRemoved",
   "tabs.onAttached", "tabs.onDetached"}

\* gq, tq: the two queries of Promise.all, each "none", "pending", "resolved"
\* or "rejected"
IdleUpd ==
  [pc |-> "idle", event |-> "none", gq |-> "none", tq |-> "none",
   groups |-> <<>>, allTabs |-> <<>>]

UpdCall(op, ok) ==
  [p |-> -1, run |-> 0, op |-> op, tabIds |-> <<>>, index |-> 0,
   groupId |-> TAB_GROUP_ID_NONE, ok |-> ok]

UpdStatic == UNCHANGED <<attr, win, grp, groups, supportsTabGroups, proc, auto>>

\* groupState[windowId] as the loop of 145-156 builds it; minIndex is the
\* empty set for null, else the set of the one index
groupStateOf(gs, allTabs) ==
  [k \in {gs[i].id : i \in 1..Len(gs)} |->
     LET g == CHOOSE g \in Range(gs) : g.id = k
         groupTabs == {t \in Range(allTabs) : t.groupId = k}
     IN  [title |-> g.title,
          tabIds |-> Ids(FilterTabs(allTabs, {t.id : t \in groupTabs})),
          minIndex |-> IF groupTabs # {} THEN {Min({t.index : t \in groupTabs})} ELSE {}]]

\* a listener fires and calls updateGroupState: both queries are issued at
\* once (141-144); without browser.tabGroups the first one throws and the
\* catch of 157 ends the handler
UpdTrigger(e) ==
  /\ upd.pc = "idle"
  /\ upd' = IF supportsTabGroups
            THEN [upd EXCEPT !.pc = "await", !.event = e, !.gq = "pending", !.tq = "pending"]
            ELSE [upd EXCEPT !.pc = "done", !.event = e]
  /\ UNCHANGED <<cmds, groupState>>
  /\ UpdStatic

\* Promise.all resolves when its second query resolves: 145-156 run
UpdSettled(u) ==
  IF u.pc = "await" /\ u.gq = "resolved" /\ u.tq = "resolved"
  THEN groupStateOf(u.groups, u.allTabs) ELSE groupState

UpdAfter(u) ==
  IF u.pc = "await" /\ u.gq = "resolved" /\ u.tq = "resolved"
  THEN [u EXCEPT !.pc = "done"] ELSE u

\* browser.tabGroups.query({windowId}) resolves (142)
UpdGroupsResolve ==
  /\ upd.gq = "pending"
  /\ LET u == [upd EXCEPT !.gq = "resolved", !.groups = QueryGroups(groups)]
     IN  /\ upd' = UpdAfter(u)
         /\ groupState' = UpdSettled(u)
  /\ cmds' = Append(cmds, UpdCall("groupQuery", TRUE))
  /\ UpdStatic

\* the handler putting the window's first tab at index 0 again once the tabs
\* are known: a move command issued from a listener
UpdTabsResolveMoves ==
  /\ upd.tq = "pending"
  /\ LET u == [upd EXCEPT !.tq = "resolved", !.allTabs = QueryTabs(win, grp)]
     IN  /\ upd' = UpdAfter(u)
         /\ groupState' = UpdSettled(u)
  /\ cmds' = Append(Append(cmds, UpdCall("query", TRUE)),
                    [UpdCall("move", TRUE) EXCEPT !.tabIds = <<win[1]>>])
  /\ win' = MoveTo(win, win[1], 0)
  /\ grp' = [grp EXCEPT ![win[1]] = TAB_GROUP_ID_NONE]
  /\ UNCHANGED <<attr, groups, supportsTabGroups, proc, auto>>

\* browser.tabs.query({windowId}) resolves (143)
UpdTabsResolve ==
  /\ upd.tq = "pending"
  /\ LET u == [upd EXCEPT !.tq = "resolved", !.allTabs = QueryTabs(win, grp)]
     IN  /\ upd' = UpdAfter(u)
         /\ groupState' = UpdSettled(u)
  /\ cmds' = Append(cmds, UpdCall("query", TRUE))
  /\ UpdStatic

\* one of the two rejects: Promise.all rejects and the catch of 157 ends the
\* handler; the other query still settles, unobserved
UpdGroupsReject ==
  /\ upd.gq = "pending"
  /\ upd' = [upd EXCEPT !.gq = "rejected", !.pc = "done"]
  /\ cmds' = Append(cmds, UpdCall("groupQuery", FALSE))
  /\ UNCHANGED groupState
  /\ UpdStatic

UpdTabsReject ==
  /\ upd.tq = "pending"
  /\ upd' = [upd EXCEPT !.tq = "rejected", !.pc = "done"]
  /\ cmds' = Append(cmds, UpdCall("query", FALSE))
  /\ UNCHANGED groupState
  /\ UpdStatic

\* ------------------------------------------------------------------------
\* The windows a behaviour starts from
\* ------------------------------------------------------------------------
Page(url, title) == [url |-> url, title |-> title]

UrlAX == Url("https", <<"a", "com">>, "/x", "")
UrlAXf == Url("https", <<"A", "com">>, "/x", "f")
UrlWwwB == Url("https", <<"www", "b", "com">>, "/", "")
UrlBY == Url("https", <<"b", "com">>, "/y", "")
UrlMailB == Url("https", <<"mail", "b", "com">>, "/", "")
UrlNotAUrl == Url("", <<>>, "Not A Url", "")

\* the pages of the windows the reconciliation is run on
Pages ==
  { Page(UrlAX, "b"), Page(UrlAXf, "a"), Page(UrlWwwB, "A"), Page(UrlBY, "a") }

\* the titles a group may carry: equal, differing by case only, in and out of order
GroupTitles(gid) == IF gid = 1 THEN {"a", "b"} ELSE {"A", "b"}

GroupColor(gid) == IF gid = 1 THEN "blue" ELSE "red"
GroupCollapsed(gid) == gid = 2

\* the browser keeps the tabs of a group together, and pinned tabs first and
\* in no group; group 1 names the group met first in the window
GroupAssignments(nPinned, supports) ==
  {g \in [TabIds -> {TAB_GROUP_ID_NONE} \cup GroupIds] :
     /\ \A i \in TabIds : i <= nPinned => g[i] = TAB_GROUP_ID_NONE
     /\ ~supports => \A i \in TabIds : g[i] = TAB_GROUP_ID_NONE
     /\ \A i, j, k \in TabIds :
          (i < j /\ j < k /\ g[i] = g[k] /\ g[i] # TAB_GROUP_ID_NONE) => g[j] = g[i]
     /\ \A i \in TabIds : g[i] = 2 => \E j \in 1..(i - 1) : g[j] = 1}

InitWindow(pages, actives) ==
  \E nPinned \in 0..MaxTabs, pg \in [TabIds -> pages], a \in actives,
     supports \in BOOLEAN :
    \E g \in GroupAssignments(nPinned, supports) :
      \E gt \in [{g[i] : i \in TabIds} \ {TAB_GROUP_ID_NONE} -> {"a", "A", "b"}] :
        /\ \A k \in DOMAIN gt : gt[k] \in GroupTitles(k)
        /\ attr = [i \in TabIds |->
                     [url |-> pg[i].url, title |-> pg[i].title,
                      pinned |-> i <= nPinned, active |-> i = a]]
        /\ win = [i \in TabIds |-> i]
        /\ grp = g
        /\ groups = [k \in DOMAIN gt |->
                       [title |-> gt[k], color |-> GroupColor(k),
                        collapsed |-> GroupCollapsed(k)]]
        /\ supportsTabGroups = supports

Init ==
  /\ InitWindow(Pages, {1, MaxTabs})
  /\ proc = [p \in {1} |-> IdleProc]
  /\ cmds = <<>>
  /\ auto = IdleAuto
  /\ upd = IdleUpd
  /\ groupState = <<>>

\* reconciliations in which every service call resolves
Next ==
  \/ \E p \in DOMAIN proc : Invoke(p)
  \/ \E p \in DOMAIN proc : DedupQuery(p)
  \/ \E p \in DOMAIN proc : Remove(p)
  \/ \E p \in DOMAIN proc : Query(p)
  \/ \E p \in DOMAIN proc : GroupQuery(p)
  \/ \E p \in DOMAIN proc : MoveGrouped(p)
  \/ \E p \in DOMAIN proc : Regroup(p)
  \/ \E p \in DOMAIN proc : MoveUngrouped(p)
  \/ \E p \in DOMAIN proc : SortMove(p)

Spec == Init /\ [][Next]_vars

\* Number of service calls that reject in one behaviour.
MaxRejects == 3

Rejects == Cardinality({i \in 1..Len(cmds) : ~cmds[i].ok})

\* the pages of the windows of the behaviours in which calls reject
FailPages == { Page(UrlAX, "b"), Page(UrlAXf, "a"), Page(UrlWwwB, "A") }

InitFail ==
  /\ InitWindow(FailPages, {MaxTabs})
  /\ proc = [p \in {1} |-> IdleProc]
  /\ cmds = <<>>
  /\ auto = IdleAuto
  /\ upd = IdleUpd
  /\ groupState = <<>>

\* the rejected calls of a behaviour are bounded
CanReject == Rejects < MaxRejects

\* one reconciliation in which any service call may resolve or reject
NextFail ==
  \/ \E p \in DOMAIN proc : proc[p].run = 0 /\ Invoke(p)
  \/ \E p \in DOMAIN proc : DedupQuery(p)
  \/ \E p \in DOMAIN proc : Remove(p)
  \/ \E p \in DOMAIN proc : Query(p)
  \/ \E p \in DOMAIN proc : GroupQuery(p)
  \/ \E p \in DOMAIN proc : MoveGrouped(p)
  \/ \E p \in DOMAIN proc : Regroup(p)
  \/ \E p \in DOMAIN proc : NewGroup(p)
  \/ \E p \in DOMAIN proc : UpdateTitle(p)
  \/ \E p \in DOMAIN proc : MoveUngrouped(p)
  \/ \E p \in DOMAIN proc : SortMove(p)
  \/ \E p \in DOMAIN proc : CanReject /\ DedupQueryReject(p)
  \/ \E p \in DOMAIN proc : CanReject /\ RemoveReject(p)
  \/ \E p \in DOMAIN proc : CanReject /\ QueryReject(p)
  \/ \E p \in DOMAIN proc : CanReject /\ GroupQueryReject(p)
  \/ \E p \in DOMAIN proc : CanReject /\ MoveGroupedReject(p)
  \/ \E p \in DOMAIN proc : CanReject /\ RegroupReject(p)
  \/ \E p \in DOMAIN proc : CanReject /\ NewGroupReject(p)
  \/ \E p \in DOMAIN proc : CanReject /\ UpdateTitleReject(p)
  \/ \E p \in DOMAIN proc : CanReject /\ MoveUngroupedReject(p)
  \/ \E p \in DOMAIN proc : CanReject /\ SortMoveReject(p)

SpecFail == InitFail /\ [][NextFail]_vars

\* removeDuplicateTabs alone, on windows that also hold tabs whose url is
\* empty or does not parse
DedupPages == Pages \cup { Page(UrlNotAUrl, "a"), Page(EmptyUrl, "") }

InitDedup ==
  /\ InitWindow(DedupPages, TabIds)
  /\ proc = [p \in {1} |-> IdleProc]
  /\ cmds = <<>>
  /\ auto = IdleAuto
  /\ upd = IdleUpd
  /\ groupState = <<>>

NextDedup ==
  \/ \E p \in DOMAIN proc : proc[p].run = 0 /\ Invoke(p)
  \/ \E p \in DOMAIN proc : DedupQuery(p)
  \/ \E p \in DOMAIN proc : DedupQueryReject(p)
  \/ \E p \in DOMAIN proc : Remove(p)
  \/ \E p \in DOMAIN proc : RemoveReject(p)

SpecDedup == InitDedup /\ [][NextDedup]_vars

\* autoSortNewTab on a tab of the window, any tab being the new one
AutoPages == Pages \cup { Page(UrlMailB, "a"), Page(EmptyUrl, "") }

InitAuto ==
  /\ InitWindow(AutoPages, {1})
  /\ proc = [p \in {1} |-> IdleProc]
  /\ cmds = <<>>
  /\ auto = IdleAuto
  /\ upd = IdleUpd
  /\ groupState = <<>>

NextAuto ==
  \/ \E n \in TabIds : AutoCreated(n)
  \/ AutoQuery
  \/ AutoQueryReject
  \/ AutoMove
  \/ AutoMoveReject

SpecAuto == InitAuto /\ [][NextAuto]_vars

\* autoSortNewTab on a new tab whose url is any https url with a host name of
\* up to MaxLabels labels; the other tabs of the window show docs.google.com
MaxLabels == 4

Labels == {"www", "WWW", "mail", "google", "com", "co", "uk", "au", "localhost", "1"}

HostNames == UNION {[1..n -> Labels] : n \in 0..MaxLabels}

UrlDocsGoogle == Url("https", <<"docs", "google", "com">>, "/", "")

InitHost ==
  /\ \E h \in HostNames :
       attr = [i \in TabIds |->
                 [url |-> IF i = 1 THEN Url("https", h, "/", "") ELSE UrlDocsGoogle,
                  title |-> "a", pinned |-> FALSE, active |-> i = 1]]
  /\ supportsTabGroups = TRUE
  /\ win = [i \in TabIds |-> i]
  /\ grp = [i \in TabIds |-> TAB_GROUP_ID_NONE]
  /\ groups = <<>>
  /\ proc = [p \in {1} |-> IdleProc]
  /\ cmds = <<>>
  /\ auto = IdleAuto
  /\ upd = IdleUpd
  /\ groupState = <<>>

SpecHost == InitHost /\ [][NextAuto]_vars

\* updateGroupState on a group or attach/detach event of the window
InitListen ==
  /\ InitWindow(FailPages, {1})
  /\ proc = [p \in {1} |-> IdleProc]
  /\ cmds = <<>>
  /\ auto = IdleAuto
  /\ upd = IdleUpd
  /\ groupState = <<>>

NextListen ==
  \/ \E e \in GroupStateEvents : UpdTrigger(e)
  \/ UpdGroupsResolve
  \/ UpdTabsResolve
  \/ UpdGroupsReject
  \/ UpdTabsReject

SpecListen == InitListen /\ [][NextListen]_vars

\* two invocations of sortTabsInWindow on one window, their awaited calls
\* interleaved in any order, every call resolving
ConcPages == { Page(UrlAX, "b"), Page(UrlBY, "a") }

InitConc ==
  /\ InitWindow(ConcPages, {1})
  /\ proc = [p \in {1, 2} |-> IdleProc]
  /\ cmds = <<>>
  /\ auto = IdleAuto
  /\ upd = IdleUpd
  /\ groupState = <<>>

NextConc ==
  \/ \E p \in DOMAIN proc : proc[p].run = 0 /\ Invoke(p)
  \/ \E p \in DOMAIN proc : DedupQuery(p)
  \/ \E p \in DOMAIN proc : Remove(p)
  \/ \E p \in DOMAIN proc : Query(p)
  \/ \E p \in DOMAIN proc : GroupQuery(p)
  \/ \E p \in DOMAIN proc : MoveGrouped(p)
  \/ \E p \in DOMAIN proc : Regroup(p)
  \/ \E p \in DOMAIN proc : MoveUngrouped(p)
  \/ \E p \in DOMAIN proc : SortMove(p)

SpecConc == InitConc /\ [][NextConc]_vars

\* ------------------------------------------------------------------------
\* A tab closed by the user while a reconciliation runs
\* ------------------------------------------------------------------------
\* the tabs tabs.remove of removeDuplicateTabs closed
RemovedIds ==
  UNION {Range(cmds[i].tabIds) : i \in {j \in 1..Len(cmds) : cmds[j].op = "remove" /\ cmds[j].ok}}

\* the tabs the user closed
ClosedTabs == TabIds \ (Range(win) \cup RemovedIds)

\* the user closes tab t while invocation p runs; one tab per behaviour
CloseTab(p, t) ==
  /\ proc[p].pc # "idle"
  /\ ClosedTabs = {}
  /\ t \in Range(win)
  /\ win' = RemoveTabs(win, {t})
  /\ UNCHANGED <<attr, grp, groups, supportsTabGroups, proc, cmds, auto, upd, groupState>>

\* a call naming a closed tab rejects; every other call resolves
InitClose ==
  /\ InitWindow(FailPages, {MaxTabs})
  /\ proc = [p \in {1} |-> IdleProc]
  /\ cmds = <<>>
  /\ auto = IdleAuto
  /\ upd = IdleUpd
  /\ groupState = <<>>

NextClose ==
  \/ \E p \in DOMAIN proc : proc[p].run = 0 /\ Invoke(p)
  \/ \E p \in DOMAIN proc : \E t \in TabIds : CloseTab(p, t)
  \/ \E p \in DOMAIN proc : DedupQuery(p)
  \/ \E p \in DOMAIN proc : Remove(p)
  \/ \E p \in DOMAIN proc : Query(p)
  \/ \E p \in DOMAIN proc : GroupQuery(p)
  \/ \E p \in DOMAIN proc : MoveGrouped(p)
  \/ \E p \in DOMAIN proc : Regroup(p)
  \/ \E p \in DOMAIN proc : MoveUngrouped(p)
  \/ \E p \in DOMAIN proc : SortMove(p)
  \/ \E p \in DOMAIN proc :
       /\ proc[p].pc = "remove"
       /\ ~(proc[p].toClose \subseteq Range(win))
       /\ RemoveReject(p)
  \/ \E p \in DOMAIN proc :
       /\ proc[p].pc = "gmove"
       /\ tabIdsOf(proc[p])[proc[p].ti] \notin Range(win)
       /\ MoveGroupedReject(p)
  \/ \E p \in DOMAIN proc :
       /\ proc[p].pc = "regroup"
       /\ ~(Range(tabIdsOf(proc[p])) \subseteq Range(win))
       /\ RegroupReject(p)
  \/ \E p \in DOMAIN proc :
       /\ proc[p].pc = "newGroup"
       /\ ~(Range(tabIdsOf(proc[p])) \subseteq Range(win))
       /\ NewGroupReject(p)
  \/ \E p \in DOMAIN proc :
       /\ proc[p].pc = "umove"
       /\ proc[p].ungroupedTabs[proc[p].ti].id \notin Range(win)
       /\ MoveUngroupedReject(p)
  \/ \E p \in DOMAIN proc :
       /\ proc[p].pc = "smove"
       /\ proc[p].sortedUnpinned[proc[p].ti].id \notin Range(win)
       /\ SortMoveReject(p)

SpecClose == InitClose /\ [][NextClose]_vars

\* ------------------------------------------------------------------------
\* Properties
\* ------------------------------------------------------------------------
\* the calls invocation p issued in its run number run
CallsOf(p, run) == {i \in 1..Len(cmds) : cmds[i].p = p /\ cmds[i].run = run}

Commands == {"remove", "move", "group", "update"}

Finished(p) == proc[p].pc = "idle" /\ proc[p].run >= 1
LastStatus(p) == proc[p].results[Len(proc[p].results)]
AllResolved(p) == \A i \in CallsOf(p, proc[p].run) : cmds[i].ok

\* the (effective host, title) order of the spec: case and accents ignored
KeyLeq(a, b) ==
  \/ HostCompareBase(getHost(a.url), getHost(b.url)) < 0
  \/ /\ HostCompareBase(getHost(a.url), getHost(b.url)) = 0
     /\ StrCompareBase(a.title, b.title) <= 0

\* the record of tab id in the snapshot of invocation p
SnapOf(p, id) == CHOOSE t \in Range(proc[p].allTabs) : t.id = id

\* the title the snapshot of p gives group gid
SnapTitle(p, gid) ==
  LET d == CHOOSE d \in Range(proc[p].sortedGroupData) : d.group.id = gid
  IN  d.group.title

\* the layout of section 3 of the spec, of the window as it is now against the
\* snapshot invocation p read: w is the window, pinned first in snapshot order,
\* then the blocks of the groups by title, then the ungrouped tabs
TargetLayout(p, w) ==
  LET snap == proc[p].allTabs
      P == Cardinality(pinnedOf(snap))
      rec(i) == SnapOf(p, w[i])
  IN  /\ Len(w) = Len(snap)
      /\ Range(w) = {t.id : t \in Range(snap)}
      /\ SubSeq(w, 1, P) = Ids(FilterTabs(snap, {t.id : t \in {u \in Range(snap) : u.pinned}}))
      /\ \A i, j \in (P + 1)..Len(w) :
           i < j =>
             LET a == rec(i)
                 b == rec(j)
             IN  /\ a.groupId = TAB_GROUP_ID_NONE => b.groupId = TAB_GROUP_ID_NONE
                 /\ a.groupId = b.groupId =>
                      /\ KeyLeq(a, b)
                      /\ \A k \in i..j : rec(k).groupId = a.groupId
                 /\ (a.groupId # b.groupId /\ b.groupId # TAB_GROUP_ID_NONE) =>
                      StrCompareBase(SnapTitle(p, a.groupId), SnapTitle(p, b.groupId)) <= 0

CommandsOf(p) == {i \in CallsOf(p, proc[p].run) : cmds[i].op \in Commands}

\* the order the snapshot of p was in
SnapOrder(p) == Ids(proc[p].allTabs)

\* the tab query of sortTabsInWindow (209) resolved in the current run of p
Queried(p) == \E i \in CallsOf(p, proc[p].run) : cmds[i].op = "query" /\ cmds[i].ok

\* C2 (as claimed): whenever the queried window already is in the target order,
\* with or without tab-group support, the reconciliation returns
\* "already_sorted" and issues no move and no group call.
C2_AlreadySortedNoCalls ==
  \A p \in DOMAIN proc :
    (Finished(p) /\ AllResolved(p) /\ Queried(p) /\ TargetLayout(p, SnapOrder(p))) =>
      /\ LastStatus(p) = "already_sorted"
      /\ \A i \in CommandsOf(p) : cmds[i].op \notin {"move", "group"}

\* C3 (as claimed): once a reconciliation has completed with every call
\* resolved, the next reconciliation of the window issues no remove, move,
\* group or update command.
C3_SecondRunNoCommands ==
  \A p \in DOMAIN proc :
    \A k \in 2..proc[p].run :
      (\A i \in CallsOf(p, k - 1) : cmds[i].ok) =>
        \A i \in CallsOf(p, k) : cmds[i].op \notin Commands

\* the execution phase was reached: the queries resolved and, without tab
\* groups, the unpinned tabs were not already in sorted order
ExecReached(p) ==
  /\ Queried(p)
  /\ supportsTabGroups =>
       \E i \in CallsOf(p, proc[p].run) : cmds[i].op = "groupQuery" /\ cmds[i].ok
  /\ ~supportsTabGroups => ~alreadySorted(unpinnedOf(proc[p].allTabs))

MovesOf(p, id) ==
  {i \in CallsOf(p, proc[p].run) : cmds[i].op = "move" /\ cmds[i].tabIds = <<id>>}

\* C4: a reconciliation that reached the execution phase has attempted
\* exactly one move for each non-pinned tab of its snapshot, whichever moves
\* rejected, and returns "sorted".
C4_OneMovePerTab ==
  \A p \in DOMAIN proc :
    (Finished(p) /\ ExecReached(p)) =>
      /\ LastStatus(p) = "sorted"
      /\ \A t \in Range(proc[p].allTabs) :
           Cardinality(MovesOf(p, t.id)) = IF t.pinned THEN 0 ELSE 1

\* C4 witness: a finished reconciliation of two or more non-pinned tabs in
\* which a move rejected and a later move was still attempted
C4_Witness ==
  /\ Finished(1) /\ ExecReached(1) /\ LastStatus(1) = "sorted"
  /\ \E i, j \in CallsOf(1, 1) :
       /\ i < j
       /\ cmds[i].op = "move" /\ ~cmds[i].ok
       /\ cmds[j].op = "move" /\ cmds[j].ok

\* C5 (as claimed): when the tab query of the reconciliation rejects, the
\* invocation returns "error" and has issued no remove, move, group or update
\* command at any point.
C5_QueryFailureNoCommands ==
  \A p \in DOMAIN proc :
    (Finished(p) /\ \E i \in CallsOf(p, proc[p].run) : cmds[i].op = "query" /\ ~cmds[i].ok)
      => (LastStatus(p) = "error" /\ CommandsOf(p) = {})

\* C8: no remove, move, group or update command names a pinned tab.
C8_PinnedUntouched ==
  \A i \in 1..Len(cmds) :
    (cmds[i].p # 0 /\ cmds[i].op \in Commands) =>
      \A k \in 1..Len(cmds[i].tabIds) : ~attr[cmds[i].tabIds[k]].pinned

\* C8 witness: a finished reconciliation of a window with a pinned tab that
\* closed an unpinned duplicate of the pinned tab, moved a tab and regrouped
C8_Witness ==
  /\ Finished(1) /\ LastStatus(1) = "sorted"
  /\ \E t \in TabIds : attr[t].pinned
  /\ \E i \in CallsOf(1, 1) :
       /\ cmds[i].op = "remove"
       /\ \E t \in TabIds :
            /\ attr[t].pinned
            /\ normalizeUrlForDeduplication(attr[t].url) =
                 normalizeUrlForDeduplication(attr[cmds[i].tabIds[1]].url)
  /\ \E i \in CallsOf(1, 1) : cmds[i].op = "move"
  /\ \E i \in CallsOf(1, 1) : cmds[i].op = "group"

\* removeDuplicateTabs of invocation p has computed its closure set from the
\* window as it still is
Planned(p) ==
  /\ proc[p].pc \in {"remove", "query"}
  /\ cmds # <<>>
  /\ cmds[Len(cmds)].op = "dupQuery" /\ cmds[Len(cmds)].ok

\* the tabs of the window whose url parses to the same normalized URL as tab t
SameUrlSet(t) ==
  {u \in Range(win) :
     /\ Parsable(attr[u].url)
     /\ normalizeUrlForDeduplication(attr[u].url) = normalizeUrlForDeduplication(attr[t].url)}

ParsableTabs == {t \in Range(win) : Parsable(attr[t].url)}

\* C6: of two or more tabs sharing a normalized URL, one of them pinned, the
\* closure set holds exactly the unpinned ones.
C6_PinnedDuplicates ==
  \A p \in DOMAIN proc :
    Planned(p) =>
      \A t \in ParsableTabs :
        (Cardinality(SameUrlSet(t)) >= 2 /\ \E u \in SameUrlSet(t) : attr[u].pinned) =>
          (t \in proc[p].toClose <=> ~attr[t].pinned)

\* C6 witness: two pinned tabs and an unpinned tab share a normalized URL
C6_Witness ==
  /\ Planned(1)
  /\ \E t, u, v \in ParsableTabs :
       /\ t # u /\ attr[t].pinned /\ attr[u].pinned /\ ~attr[v].pinned
       /\ SameUrlSet(t) = {t, u, v}
       /\ attr[t].url # attr[v].url

\* C7: of two or more tabs sharing a normalized URL, none pinned, exactly one
\* is outside the closure set: the active tab if it is one of them, else the
\* one with the lowest index.
C7_Survivor ==
  \A p \in DOMAIN proc :
    Planned(p) =>
      \A t \in ParsableTabs :
        LET S == SameUrlSet(t)
        IN  (Cardinality(S) >= 2 /\ \A u \in S : ~attr[u].pinned) =>
              (t \notin proc[p].toClose <=>
                 IF \E u \in S : attr[u].active THEN attr[t].active
                 ELSE \A u \in S : IndexOf(win, t) <= IndexOf(win, u))

\* C7 witness: three unpinned duplicates, the active one not the first
C7_Witness ==
  /\ Planned(1)
  /\ \E t \in ParsableTabs :
       /\ Cardinality(SameUrlSet(t)) = 3
       /\ \A u \in SameUrlSet(t) : ~attr[u].pinned
       /\ attr[t].active /\ IndexOf(win, t) > 0
       /\ proc[1].toClose = SameUrlSet(t) \ {t}

\* C7 second witness: duplicates without the active tab among them
C7_WitnessLowest ==
  /\ Planned(1)
  /\ \E t \in ParsableTabs :
       /\ Cardinality(SameUrlSet(t)) = 2
       /\ \A u \in SameUrlSet(t) : ~attr[u].pinned /\ ~attr[u].active
       /\ t \notin proc[1].toClose

\* the move calls autoSortNewTab issued
AutoMoves == {i \in 1..Len(cmds) : cmds[i].p = 0 /\ cmds[i].op = "move"}

\* C9 (as claimed): autoSortNewTab issues no move for a tab that is pinned or
\* is a member of a tab group, the new tab included.
C9_NoMoveOfPinnedOrGrouped ==
  \A i \in AutoMoves :
    /\ ~attr[cmds[i].tabIds[1]].pinned
    /\ auto.tab.id = cmds[i].tabIds[1] => auto.tab.groupId = TAB_GROUP_ID_NONE

\* the same-domain tabs of the new tab: unpinned, ungrouped, another tab
SameDomainOf(n) ==
  {t \in Range(win) \ {n} :
     /\ ~attr[t].pinned
     /\ (supportsTabGroups => grp[t] = TAB_GROUP_ID_NONE)
     /\ getHost(attr[t].url) = getHost(attr[n].url)}

\* the earliest of them
Earliest(n) == CHOOSE t \in SameDomainOf(n) : \A u \in SameDomainOf(n) : PosOf(win, t) <= PosOf(win, u)

Moved == auto.pc = "done" /\ auto.result = "moved"

\* C10 (as claimed): after a successful move the new tab stands immediately
\* before the earliest same-domain tab, wherever it started.
C10_ImmediatelyBefore ==
  (Moved /\ SameDomainOf(auto.tab.id) # {}) =>
    PosOf(win, auto.tab.id) + 1 = PosOf(win, Earliest(auto.tab.id))

\* C10 (amended): after a successful move the new tab stands at the index the
\* earliest same-domain tab had, and that tab is its neighbour: right after it
\* when the new tab came from a higher index, right before it when it came from
\* a lower index.
C10_NextToEarliest ==
  (Moved /\ SameDomainOf(auto.tab.id) # {}) =>
    /\ IndexOf(win, auto.tab.id) = auto.targetIndex
    /\ PosOf(win, Earliest(auto.tab.id)) =
         IF auto.tab.index > auto.targetIndex
         THEN PosOf(win, auto.tab.id) + 1
         ELSE PosOf(win, auto.tab.id) - 1

\* C10 witness: the new tab started below the earliest same-domain tab, with
\* another tab between them, and was moved
C10_Witness ==
  /\ Moved
  /\ auto.tab.index + 1 < auto.targetIndex
  /\ Cardinality(SameDomainOf(auto.tab.id)) >= 1

\* C10 second witness: the new tab started above the earliest same-domain tab
C10_WitnessHigher ==
  /\ Moved
  /\ auto.tab.index > auto.targetIndex + 1

\* the commands (not queries) autoSortNewTab issued
AutoCommands == {i \in 1..Len(cmds) : cmds[i].p = 0 /\ cmds[i].op \in Commands}

\* C11: when no unpinned, ungrouped tab other than the new tab has the new
\* tab's effective host, autoSortNewTab issues no move and no other command,
\* and the new tab stays where the browser put it.
C11_NoMoveWithoutSameDomain ==
  (auto.tab # NoTab /\ SameDomainOf(auto.tab.id) = {}) =>
    /\ auto.pc # "move"
    /\ AutoCommands = {}
    /\ IndexOf(win, auto.tab.id) = auto.tab.index

\* C11 witness: the query resolved, the only other tabs of the new tab's host
\* are pinned or members of a group, and the handler is over without a move
C11_Witness ==
  /\ auto.pc = "done" /\ auto.result = "no_move"
  /\ \E t \in Range(win) \ {auto.tab.id} :
       /\ getHost(attr[t].url) = getHost(attr[auto.tab.id].url)
       /\ (attr[t].pinned \/ grp[t] # TAB_GROUP_ID_NONE)

\* the reference rule of the effective host, on the lower-cased host name h:
\* how many trailing labels are kept once a leading "www" label is dropped
RefStripped(h) ==
  IF Len(h) > 1 /\ h[1] = "www" THEN [i \in 1..(Len(h) - 1) |-> h[i + 1]] ELSE h

RefIsDottedQuad(h) == Len(h) = 4 /\ \A i \in 1..4 : h[i] \in {"1", "168", "192"}

RefEndsWithSuffix(s) ==
  /\ Len(s) > 2
  /\ \/ s[Len(s)] = "uk" /\ s[Len(s) - 1] \in {"co", "org", "gov", "ac"}
     \/ s[Len(s)] = "au" /\ s[Len(s) - 1] \in {"com", "net", "org"}
     \/ s[Len(s)] = "jp" /\ s[Len(s) - 1] = "co"

RefEffectiveHost(hostname) ==
  LET h == [i \in 1..Len(hostname) |-> Lower(hostname[i])]
      s == RefStripped(h)
      n == IF RefEndsWithSuffix(s) THEN 3 ELSE IF Len(s) >= 2 THEN 2 ELSE Len(s)
  IN  IF RefIsDottedQuad(h) \/ h = <<"localhost">> THEN h
      ELSE [i \in 1..n |-> s[Len(s) - n + i]]

\* C12: for every url that parses, the effective host the code computes is
\* the one the reference rule gives (dotted quad and localhost unchanged, one
\* leading www dropped, three labels under a multi-part suffix, else two, else
\* the whole host); so the hosts of one registrable domain get one key.
C12_EffectiveHostRule ==
  (auto.pc \in {"query", "move"} /\ Parsable(auto.tab.url)) =>
    /\ auto.newTabHost = RefEffectiveHost(auto.tab.url.host)
    /\ \A t \in Range(win) :
         RefEffectiveHost(attr[t].url.host) = RefEffectiveHost(auto.tab.url.host)
           => getHost(attr[t].url) = auto.newTabHost

\* C12 witness: the new tab shows www.mail.co.uk, three labels are kept
C12_Witness ==
  /\ auto.pc = "done"
  /\ auto.tab.url.host = <<"WWW", "mail", "co", "uk">>
  /\ auto.newTabHost = <<"mail", "co", "uk">>

\* C12 second witness: the new tab shows mail.google.com and is moved to the
\* docs.google.com tabs
C12_WitnessSubdomains ==
  /\ Moved
  /\ auto.tab.url.host = <<"mail", "google", "com">>
  /\ auto.newTabHost = <<"google", "com">>

\* the update calls invocation p issued for group gid in its current run
UpdatesOf(p, gid) ==
  {i \in CallsOf(p, proc[p].run) : cmds[i].op = "update" /\ cmds[i].groupId = gid}

\* the group call that re-applied the membership of group gid
RegroupsOf(p, gid) ==
  {i \in CallsOf(p, proc[p].run) : cmds[i].op = "group" /\ cmds[i].groupId = gid}

\* C13 (as claimed): after a reconciliation in which every call resolved, an
\* update command was issued for every non-empty group of the snapshot, after
\* the group call that re-applied its membership, and the group's title, color
\* and collapsed state are those of the snapshot.
C13_UpdateRestoresMetadata ==
  \A p \in DOMAIN proc :
    (Finished(p) /\ AllResolved(p) /\ LastStatus(p) = "sorted" /\ supportsTabGroups) =>
      \A d \in Range(proc[p].sortedGroupData) :
        d.tabs # <<>> =>
          /\ \E i \in UpdatesOf(p, d.group.id) : \A j \in RegroupsOf(p, d.group.id) : j < i
          /\ groups[d.group.id] = [title |-> d.group.title, color |-> d.group.color,
                                   collapsed |-> d.group.collapsed]

\* the rejected "assign these tabs to this group id" calls of invocation p
GroupRejects(p) ==
  {i \in CallsOf(p, proc[p].run) :
     cmds[i].op = "group" /\ cmds[i].groupId # TAB_GROUP_ID_NONE /\ ~cmds[i].ok}

\* call i + 1 creates a group from the tab ids of call i
CreationFollows(i) ==
  /\ cmds[i + 1].op = "group"
  /\ cmds[i + 1].groupId = TAB_GROUP_ID_NONE
  /\ cmds[i + 1].tabIds = cmds[i].tabIds

\* every non-pinned tab of the snapshot got its move and the status is "sorted"
ProcessedAll(p) ==
  /\ LastStatus(p) = "sorted"
  /\ \A t \in Range(proc[p].allTabs) : ~t.pinned => MovesOf(p, t.id) # {}

\* C14 (as claimed): after a rejected group-assignment call the next call
\* creates a group from the same tab ids and, that resolved, the next one is
\* an update giving the new group the original title; if either of the two
\* rejects, the tabs (those the moves took out of their group) are left
\* ungrouped, and the reconciliation still handles every remaining tab and
\* returns "sorted".
C14_FallbackOrUngrouped ==
  \A p \in DOMAIN proc :
    \A i \in GroupRejects(p) :
      /\ Len(cmds) >= i + 1 => CreationFollows(i)
      /\ (Len(cmds) >= i + 2 /\ cmds[i + 1].ok) => cmds[i + 2].op = "update"
      /\ Finished(p) =>
           /\ ProcessedAll(p)
           /\ (cmds[i + 1].ok /\ cmds[i + 2].ok) =>
                groups[cmds[i + 2].groupId].title = SnapTitle(p, cmds[i].groupId)
           /\ (~cmds[i + 1].ok \/ ~cmds[i + 2].ok) =>
                \A k \in 1..Len(cmds[i].tabIds) :
                  (\E m \in MovesOf(p, cmds[i].tabIds[k]) : cmds[m].ok) =>
                    grp[cmds[i].tabIds[k]] = TAB_GROUP_ID_NONE

\* C14 (amended): as above, but what a rejection leaves behind differs: when
\* the creation rejects no update is issued and the tabs keep the membership
\* the moves left them with (none, for every tab whose move resolved); when
\* only the update rejects the tabs stay in the new group, which has no title.
C14_FallbackBestEffort ==
  \A p \in DOMAIN proc :
    \A i \in GroupRejects(p) :
      /\ Len(cmds) >= i + 1 => CreationFollows(i)
      /\ (Len(cmds) >= i + 2 /\ cmds[i + 1].ok) =>
           /\ cmds[i + 2].op = "update"
           /\ cmds[i + 2].groupId \notin {d.group.id : d \in Range(proc[p].sortedGroupData)}
      /\ (Len(cmds) >= i + 2 /\ ~cmds[i + 1].ok) => cmds[i + 2].op = "move"
      /\ Finished(p) =>
           /\ ProcessedAll(p)
           /\ (cmds[i + 1].ok /\ cmds[i + 2].ok) =>
                groups[cmds[i + 2].groupId].title = SnapTitle(p, cmds[i].groupId)
           /\ ~cmds[i + 1].ok =>
                \A k \in 1..Len(cmds[i].tabIds) :
                  LET t == cmds[i].tabIds[k]
                  IN  grp[t] = IF \E m \in MovesOf(p, t) : cmds[m].ok
                               THEN TAB_GROUP_ID_NONE ELSE cmds[i].groupId
           /\ (cmds[i + 1].ok /\ ~cmds[i + 2].ok) =>
                /\ \A k \in 1..Len(cmds[i].tabIds) :
                     grp[cmds[i].tabIds[k]] = cmds[i + 2].groupId
                /\ groups[cmds[i + 2].groupId].title = ""

\* C14 witness: the group call rejected, the creation resolved, the update
\* rejected, and a tab was still moved afterwards before "sorted" was returned
C14_Witness ==
  /\ Finished(1) /\ LastStatus(1) = "sorted"
  /\ \E i \in GroupRejects(1) :
       /\ cmds[i + 1].ok /\ ~cmds[i + 2].ok
       /\ \E m \in CallsOf(1, 1) : m > i + 2 /\ cmds[m].op = "move" /\ cmds[m].ok

\* C14 second witness: the group call and the creation both rejected
C14_WitnessBothReject ==
  /\ Finished(1) /\ LastStatus(1) = "sorted"
  /\ \E i \in GroupRejects(1) :
       /\ ~cmds[i + 1].ok
       /\ \E m \in CallsOf(1, 1) : m > i + 1 /\ cmds[m].op = "move"

\* the non-pinned tabs of the snapshot of p in target order: the sorted groups
\* one after the other, then the sorted ungrouped tabs
PlannedOrder(p) ==
  IF supportsTabGroups
  THEN Flatten([k \in 1..Len(proc[p].sortedGroupData) |->
                  Ids(proc[p].sortedGroupData[k].tabs)]) \o Ids(proc[p].ungroupedTabs)
  ELSE Ids(proc[p].sortedUnpinned)

\* the target index of tab id: its position in pinned block + PlannedOrder
TargetIndexOf(p, id) ==
  Cardinality(pinnedOf(proc[p].allTabs)) + PosOf(PlannedOrder(p), id) - 1

\* C15 (as claimed): every move a reconciliation issues carries the target
\* index of the tab it moves, also when an earlier move of the reconciliation
\* rejected.
C15_MoveIndexIsTargetIndex ==
  \A p \in DOMAIN proc :
    \A i \in CallsOf(p, proc[p].run) :
      cmds[i].op = "move" => cmds[i].index = TargetIndexOf(p, cmds[i].tabIds[1])

\* the call invocation p is awaiting: the pc names it, and it was issued when
\* the call before it settled
MoveOutstanding(p) == proc[p].pc \in {"gmove", "umove", "smove"}

\* the tab the outstanding move of p names
OutstandingTab(p) ==
  CASE proc[p].pc = "gmove" -> tabIdsOf(proc[p])[proc[p].ti]
    [] proc[p].pc = "umove" -> proc[p].ungroupedTabs[proc[p].ti].id
    [] proc[p].pc = "smove" -> proc[p].sortedUnpinned[proc[p].ti].id

\* the move calls of the current run of p, settled
SettledMoves(p) == {i \in CallsOf(p, proc[p].run) : cmds[i].op = "move"}

\* C16: the calls of a reconciliation are issued one after the other, and its
\* moves in strictly ascending target-index order: when the move of a tab is
\* issued, the move of every tab with a lower target index has resolved or
\* rejected, and no move of a tab with a higher target index has been issued.
C16_MovesInTargetOrder ==
  \A p \in DOMAIN proc :
    /\ \A i, j \in SettledMoves(p) :
         i < j => TargetIndexOf(p, cmds[i].tabIds[1]) < TargetIndexOf(p, cmds[j].tabIds[1])
    /\ MoveOutstanding(p) =>
         \A k \in 1..Len(PlannedOrder(p)) :
           (\E i \in SettledMoves(p) : cmds[i].tabIds = <<PlannedOrder(p)[k]>>)
             <=> k < PosOf(PlannedOrder(p), OutstandingTab(p))

\* C16 witness: a group of two tabs and an ungrouped tab, the first move
\* rejected, the other two issued after it in target order
C16_Witness ==
  /\ Finished(1) /\ supportsTabGroups
  /\ Cardinality(SettledMoves(1)) = 3
  /\ \E d \in Range(proc[1].sortedGroupData) : Len(d.tabs) = 2
  /\ \E i \in SettledMoves(1) : ~cmds[i].ok /\ \A j \in SettledMoves(1) : i <= j

\* the group-assignment calls (tabs.group with a groupId) of the current run
GroupAssignmentsOf(p) ==
  {i \in CallsOf(p, proc[p].run) : cmds[i].op = "group" /\ cmds[i].groupId # TAB_GROUP_ID_NONE}

\* a move of tab id was attempted before call i
MovedBefore(p, id, i) == \E m \in MovesOf(p, id) : m < i

\* C17 (as claimed): no group-assignment call is issued before a move has
\* been attempted for every non-pinned tab of the snapshot.
C17_AllMovesBeforeGroupCalls ==
  \A p \in DOMAIN proc :
    \A i \in GroupAssignmentsOf(p) :
      \A t \in Range(proc[p].allTabs) : ~t.pinned => MovedBefore(p, t.id, i)

\* C17 (amended): the group-assignment call of a group is issued when a move
\* has been attempted for every tab of that group and of the groups before it
\* in title order, and before any move of a tab after them in target order;
\* a finished reconciliation has issued exactly one such call per non-empty
\* group.
C17_GroupCallAfterItsMoves ==
  \A p \in DOMAIN proc :
    /\ \A i \in GroupAssignmentsOf(p) :
         LET last == CHOOSE k \in 1..Len(PlannedOrder(p)) :
                       /\ PlannedOrder(p)[k] \in Range(cmds[i].tabIds)
                       /\ \A id \in Range(cmds[i].tabIds) : PosOf(PlannedOrder(p), id) <= k
         IN  \A k \in 1..Len(PlannedOrder(p)) :
               MovedBefore(p, PlannedOrder(p)[k], i) <=> k <= last
    /\ (Finished(p) /\ LastStatus(p) = "sorted" /\ supportsTabGroups) =>
         \A d \in Range(proc[p].sortedGroupData) :
           Cardinality({i \in GroupAssignmentsOf(p) : cmds[i].groupId = d.group.id}) =
             IF d.tabs # <<>> THEN 1 ELSE 0

\* C17 witness: two groups; the call for the first was issued before the
\* move of the tab of the second
C17_Witness ==
  /\ Finished(1) /\ LastStatus(1) = "sorted"
  /\ Cardinality(GroupAssignmentsOf(1)) = 2
  /\ \E i \in GroupAssignmentsOf(1) : \E m \in SettledMoves(1) : i < m
  /\ \E i \in GroupAssignmentsOf(1) : Len(cmds[i].tabIds) = 2

\* C18 (as claimed): a tab whose url is empty or does not parse is never in
\* the closure set, and the closure set is the one the tabs with a parsable
\* url alone would give, also when several tabs carry the same unparsable url.
C18_UnparsableExcluded ==
  \A p \in DOMAIN proc :
    Planned(p) =>
      /\ \A t \in Range(win) : ~Parsable(attr[t].url) => t \notin proc[p].toClose
      /\ proc[p].toClose = toClose(FilterTabs(QueryTabs(win, grp), ParsableTabs))

\* a tab-enumerating query (89 or 209) of the current run of p rejected
TabQueryRejected(p) ==
  \E i \in CallsOf(p, proc[p].run) : cmds[i].op \in {"dupQuery", "query"} /\ ~cmds[i].ok

\* C19 (as claimed): a reconciliation returns "error" only if its tab query
\* rejected; the rejection of any other call (remove, move, group, update, the
\* group query) does not end it: it returns "sorted" or "already_sorted".
C19_ErrorOnlyOnTabQuery ==
  \A p \in DOMAIN proc :
    (Finished(p) /\ LastStatus(p) = "error") => TabQueryRejected(p)

\* the comparators of the spec: case and accents ignored in host and title
RefTabOrder(tabs) ==
  StableSort(tabs, [j, k \in 1..Len(tabs) |->
    IF HostCompareBase(getHost(tabs[j].url), getHost(tabs[k].url)) # 0
    THEN HostCompareBase(getHost(tabs[j].url), getHost(tabs[k].url))
    ELSE StrCompareBase(tabs[j].title, tabs[k].title)])

RefGroupOrder(gd) ==
  StableSort(gd, [j, k \in 1..Len(gd) |-> StrCompareBase(gd[j].group.title, gd[k].group.title)])

\* the group query of the current run of p resolved: the plan is made
PlanMade(p) == \E i \in CallsOf(p, proc[p].run) : cmds[i].op = "groupQuery" /\ cmds[i].ok

\* C20 (as claimed): every sort of the reconciler orders its items as a stable
\* sort under the case- and accent-insensitive comparison does: items whose
\* keys differ by case only keep their input order.  Holds for the tabs of each
\* group, the groups, the ungrouped tabs, and the tabs of sortUngroupedTabs.
C20_CaseInsensitiveStable ==
  \A p \in DOMAIN proc :
    /\ (supportsTabGroups /\ PlanMade(p)) =>
         LET gd == groupDataOf(proc[p].allTabs, QueryGroups(groups))
         IN  /\ proc[p].ungroupedTabs =
                  RefTabOrder(ungroupedOf(proc[p].allTabs, QueryGroups(groups)))
             /\ [k \in 1..Len(proc[p].sortedGroupData) |-> proc[p].sortedGroupData[k].group.id]
                  = [k \in 1..Len(gd) |-> RefGroupOrder(gd)[k].group.id]
             /\ \A d \in Range(proc[p].sortedGroupData) : d.tabs = RefTabOrder(d.tabs)
    /\ (~supportsTabGroups /\ proc[p].pc = "smove") =>
         proc[p].sortedUnpinned = RefTabOrder(unpinnedOf(proc[p].allTabs))

\* the calls the handlers of updateGroupState issued
UpdCalls == {i \in 1..Len(cmds) : cmds[i].p = -1}

\* C21: a step of a group created/updated/removed or tab attached/detached
\* handler issues only queries and leaves the window's tab order, the group
\* membership and the groups as they are.
C21_ListenersOnlyQuery ==
  [][upd' # upd =>
       /\ UNCHANGED <<win, grp, groups>>
       /\ \A i \in 1..Len(cmds') : cmds'[i].p = -1 => cmds'[i].op \in {"query", "groupQuery"}]_vars

\* C21 witness: a handler ran to its end on a window with a group of two tabs
\* and recorded the group
C21_Witness ==
  /\ upd.pc = "done" /\ upd.gq = "resolved" /\ upd.tq = "resolved"
  /\ Cardinality(UpdCalls) = 2
  /\ \E k \in DOMAIN groupState : Len(groupState[k].tabIds) = 2

\* the layout of section 3 of the spec, of the window as it is: pinned tabs
\* first and in their original order, then the tabs of each group together
\* and sorted, the groups in title order, then the ungrouped tabs sorted
LayoutNow ==
  \A i, j \in 1..Len(win) :
    i < j =>
      LET a == TabRecord(win, grp, win[i])
          b == TabRecord(win, grp, win[j])
      IN  /\ b.pinned => (a.pinned /\ a.id < b.id)
          /\ (~a.pinned /\ ~b.pinned) =>
               /\ a.groupId = TAB_GROUP_ID_NONE => b.groupId = TAB_GROUP_ID_NONE
               /\ a.groupId = b.groupId =>
                    /\ KeyLeq(a, b)
                    /\ \A k \in i..j : grp[win[k]] = a.groupId
               /\ (a.groupId # b.groupId /\ b.groupId # TAB_GROUP_ID_NONE) =>
                    StrCompareBase(groups[a.groupId].title, groups[b.groupId].title) <= 0

\* C22 (as claimed): once two reconciliations of the window that ran
\* concurrently, every call resolving, have both completed, the window is in
\* the target layout.
C22_ConcurrentLayout ==
  (\A p \in DOMAIN proc : Finished(p) /\ LastStatus(p) # "error") => LayoutNow

\* C23: after a reconciliation in which every call resolved, every tab of the
\* snapshot is in the group it was in, and every tab that was in no group is
\* in no group, also the one moved right behind the block of a group.
C23_MembershipPreserved ==
  \A p \in DOMAIN proc :
    (Finished(p) /\ AllResolved(p) /\ LastStatus(p) # "error") =>
      \A t \in Range(proc[p].allTabs) : grp[t.id] = t.groupId

\* C23 witness: a group of two tabs was moved and regrouped, and an ungrouped
\* tab that stood before the group now stands right behind it
C23_Witness ==
  /\ Finished(1) /\ AllResolved(1) /\ LastStatus(1) = "sorted"
  /\ \E d \in Range(proc[1].sortedGroupData) : Len(d.tabs) = 2
  /\ \E t \in Range(proc[1].allTabs) :
       /\ ~t.pinned /\ t.groupId = TAB_GROUP_ID_NONE
       /\ t.index = 0
       /\ PosOf(win, t.id) = Len(win)
       /\ grp[win[Len(win) - 1]] # TAB_GROUP_ID_NONE

\* the tabs of the window that hold the url key of tab t: the tabs with a
\* non-empty url whose normalized url is that of t
HoldersOf(t) ==
  {u \in Range(win) :
     /\ attr[u].url # EmptyUrl
     /\ normalizeUrlForDeduplication(attr[u].url) = normalizeUrlForDeduplication(attr[t].url)}

UrlHolders == {t \in Range(win) : attr[t].url # EmptyUrl}

\* tabs.remove of invocation p has just resolved
Removed(p) ==
  /\ proc[p].pc = "query"
  /\ cmds # <<>>
  /\ cmds[Len(cmds)].op = "remove" /\ cmds[Len(cmds)].ok

\* C24: for every normalized url held by a tab before deduplication, a tab
\* holding it is outside the closure set; after the removal every normalized
\* url is held by pinned tabs only or by exactly one unpinned tab.
C24_NeverClosesAll ==
  \A p \in DOMAIN proc :
    /\ Planned(p) =>
         \A t \in UrlHolders : \E u \in HoldersOf(t) : u \notin proc[p].toClose
    /\ Removed(p) =>
         \A t \in UrlHolders :
           \/ \A u \in HoldersOf(t) : attr[u].pinned
           \/ HoldersOf(t) = {t} /\ ~attr[t].pinned

\* C24 witness: three unpinned tabs held one url, two were removed and the
\* active one is left
C24_Witness ==
  /\ Removed(1)
  /\ Cardinality(proc[1].toClose) = 2
  /\ \E t \in UrlHolders : HoldersOf(t) = {t} /\ attr[t].active /\ t # 1

\* C25 (as claimed): when the move of a member of a group rejected because the
\* tab had been closed, the other members of the group, whose moves resolved,
\* are members of a group with the original title when the reconciliation
\* has finished.
C25_GroupSurvivesClosedTab ==
  \A p \in DOMAIN proc :
    Finished(p) =>
      \A d \in Range(proc[p].sortedGroupData) :
        (\E t \in Range(d.tabs) :
           t.id \in ClosedTabs /\ \E m \in MovesOf(p, t.id) : ~cmds[m].ok) =>
          \A u \in Range(d.tabs) :
            (\E m \in MovesOf(p, u.id) : cmds[m].ok) =>
              /\ grp[u.id] # TAB_GROUP_ID_NONE
              /\ groups[grp[u.id]].title = d.group.title

\* every call of run k of invocation p resolved
RunResolved(p, k) == \A i \in CallsOf(p, k) : cmds[i].ok

\* C26: when a reconciliation completed with every call resolved and a second
\* reconciliation of the unmodified window completed as well, the second one,
\* whatever it issued, closed no tab and left the tab order and the group of
\* every tab exactly as its own snapshot found them, that is as the first
\* reconciliation left them.
C26_FixedPoint ==
  \A p \in DOMAIN proc :
    (Finished(p) /\ proc[p].run = 2 /\ RunResolved(p, 1) /\ RunResolved(p, 2)) =>
      /\ \A i \in CallsOf(p, 2) : cmds[i].op # "remove"
      /\ win = SnapOrder(p)
      /\ \A t \in Range(proc[p].allTabs) : grp[t.id] = t.groupId

\* C26 witness: the first reconciliation closed a duplicate and moved tabs,
\* the second one finished after issuing moves and a group call of its own
C26_Witness ==
  /\ Finished(1) /\ proc[1].run = 2 /\ RunResolved(1, 1) /\ RunResolved(1, 2)
  /\ \E i \in CallsOf(1, 1) : cmds[i].op = "remove"
  /\ \E i \in CallsOf(1, 2) : cmds[i].op = "move"
  /\ \E i \in CallsOf(1, 2) : cmds[i].op = "group"
  /\ \E t \in Range(proc[1].allTabs) : t.groupId = TAB_GROUP_ID_NONE /\ ~t.pinned

=============================================================================
